---- MODULE Spec2Model ----
\* Verification model of the TREU ROI calculators:
\*   src/it_broker_roi_calculator_enhanced.py               (percentage model)
\*   src/it_broker_roi_calculator_enhanced_style_domains_fixed.py (category model)
\* Both are Streamlit scripts: every widget change reruns the whole script from
\* the top with the widgets' current values.  Python floats are modelled as
\* exact rationals <<numerator, denominator>> in lowest terms.
EXTENDS Integers, Sequences, FiniteSets, TLC

VARIABLES
    \* enhanced.py: the sidebar widgets (lines 36-48)
    baseline_spend, savings_pct, fee_pct, baseline_hours, time_saved_pct,
    cost_per_hour, opp_value_per_hour, forecast_years, savings_range, fee_range,
    \* enhanced.py: the names the script binds in one run (lines 74-104)
    enhanced,
    \* domains_fixed.py: the sidebar widgets (lines 46-53)
    category, annual_spend,
    \* domains_fixed.py: the names the script binds in one run (lines 67-96)
    \* and what main() renders (lines 99-111)
    domains,
    \* a direct call of one of the engine's calculations: its arguments and result
    call

vars == <<baseline_spend, savings_pct, fee_pct, baseline_hours, time_saved_pct,
          cost_per_hour, opp_value_per_hour, forecast_years, savings_range,
          fee_range, enhanced, category, annual_spend, domains, call>>

enhancedVars == <<baseline_spend, savings_pct, fee_pct, baseline_hours,
                  time_saved_pct, cost_per_hour, opp_value_per_hour,
                  forecast_years, savings_range, fee_range, enhanced>>

domainsVars == <<category, annual_spend, domains>>

\* ---------------------------------------------------------------------------
\* Python evaluation order and float arithmetic, as exact rationals
\* ---------------------------------------------------------------------------

\* `name = value` followed by the rest of the block: the value is computed once
\* and the name stands for it from there on
Let(value, rest(_)) == CHOOSE r \in {rest(name) : name \in {value}} : TRUE

\* the operands of a binary operator are evaluated once, then it is applied
Apply(op(_, _), x, y) == CHOOSE r \in {op(v, w) : v \in {x}, w \in {y}} : TRUE

Abs(x) == IF x < 0 THEN -x ELSE x

RECURSIVE GCD(_, _)
GCD(a, b) == IF b = 0 THEN a ELSE Apply(GCD, b, a % b)

\* n/d in lowest terms with a positive denominator (d # 0)
Lowest(n, d) ==
    Let(GCD(Abs(n), Abs(d)), LAMBDA g :
        IF d < 0 THEN <<(-n) \div g, (-d) \div g>> ELSE <<n \div g, d \div g>>)

Rat(n, d) == Apply(Lowest, n, d)

\* an int used in float arithmetic
R(n) == <<n, 1>>

\* numpy's nan (np.nan): no numerator, no denominator
NaN == <<0, 0>>

\* the marker of a float division that raised ZeroDivisionError
ZeroDivisionError == <<1, 0>>

IsNumber(x) == x[2] # 0

Plus(x, y) ==
    Let(GCD(x[2], y[2]), LAMBDA g :
        Lowest(x[1] * (y[2] \div g) + y[1] * (x[2] \div g), (x[2] \div g) * y[2]))

\* x + y
RAdd(x, y) == Apply(Plus, x, y)

Minus(x, y) == Plus(x, <<-y[1], y[2]>>)

\* x - y
RSub(x, y) == Apply(Minus, x, y)

Times(x, y) == Lowest(x[1] * y[1], x[2] * y[2])

\* x * y
RMul(x, y) == Apply(Times, x, y)

Over(x, y) ==
    IF y[1] = 0 THEN ZeroDivisionError
    ELSE Lowest(x[1] * y[2], x[2] * y[1])

\* Python's x / y on floats: raises ZeroDivisionError when y is zero
RDiv(x, y) == Apply(Over, x, y)

Below(x, y) == x[1] * y[2] < y[1] * x[2]

\* x < y
RLess(x, y) == Apply(Below, x, y)

NotAbove(x, y) == x[1] * y[2] <= y[1] * x[2]

\* x <= y
RLeq(x, y) == Apply(NotAbove, x, y)

\* range(start, stop, step) as a list, step > 0
CountUp(start, stop, step, n) == [k \in 1..n |-> start + (k - 1) * step]

PyRange(start, stop, step) ==
    CountUp(start, stop, step,
            IF stop > start THEN (stop - start + step - 1) \div step ELSE 0)

\* sum(xs), left to right from 0
RECURSIVE RSum(_)
RSum(xs) ==
    IF xs = <<>> THEN R(0)
    ELSE Let(SubSeq(xs, 1, Len(xs) - 1), LAMBDA front :
             RAdd(RSum(front), xs[Len(xs)]))

\* x ** i for an int i >= 0
RECURSIVE RPow(_, _)
RPow(x, i) == IF i = 0 THEN R(1) ELSE RMul(RPow(x, i - 1), x)

\* ---------------------------------------------------------------------------
\* it_broker_roi_calculator_enhanced.py
\* ---------------------------------------------------------------------------

\* `net_savings / fee_cost if fee_cost else np.nan` with the guard dropped
RatioIfUnguarded(num, den) == RDiv(num, den)

\* `num / den if den else np.nan` (lines 59-60): den is falsy exactly when 0
RatioIf(num, den) == IF den[1] # 0 THEN RDiv(num, den) ELSE NaN

\* net_savings computed with the fee added instead of subtracted
NetSavingsSwapped(gross_savings, fee_cost) == RAdd(gross_savings, fee_cost)

\* line 54
NetSavings(gross_savings, fee_cost) == RSub(gross_savings, fee_cost)

\* def calculate_metrics (lines 51-71); the dict is a function on its keys
calculate_metrics(spend, savings, fee, hours, time_saved, cost_hr, opp_hr) ==
    Let(RDiv(R(spend * savings), R(100)), LAMBDA gross_savings :
    Let(RDiv(R(spend * fee), R(100)), LAMBDA fee_cost :
    Let(NetSavings(gross_savings, fee_cost), LAMBDA net_savings :
    Let(RDiv(R(hours * time_saved), R(100)), LAMBDA hours_saved :
    Let(RMul(hours_saved, R(cost_hr)), LAMBDA time_value :
    Let(RMul(hours_saved, R(opp_hr)), LAMBDA opp_value :
    Let(RAdd(RAdd(net_savings, time_value), opp_value), LAMBDA total_benefit :
    Let(RatioIf(net_savings, fee_cost), LAMBDA financial_roi :
    Let(RatioIf(total_benefit, fee_cost), LAMBDA total_roi :
        ("Gross Savings ($)" :> gross_savings)
        @@ ("Broker Fee Cost ($)" :> fee_cost)
        @@ ("Net Savings ($)" :> net_savings)
        @@ ("Hours Saved" :> hours_saved)
        @@ ("Time Savings Value ($)" :> time_value)
        @@ ("Opportunity Value ($)" :> opp_value)
        @@ ("Total Benefit ($)" :> total_benefit)
        @@ ("Financial ROI (x)" :> financial_roi)
        @@ ("Total ROI (x)" :> total_roi))))))))))

\* whether a call of calculate_metrics ended in an exception
Raised(m) ==
    \E k \in DOMAIN m : m[k] = ZeroDivisionError

\* the step of the sensitivity chart's x axis (line 100)
SWEEP_STEP == 5

\* x_vals with the stop left at savings_range[1]: the upper end is never plotted
x_vals_exclusive(sr) == PyRange(sr[1], sr[2], SWEEP_STEP)

\* line 100
x_vals_of(sr) == PyRange(sr[1], sr[2] + 1, SWEEP_STEP)

\* `for fee in fee_range` (line 102): the slider's value is the tuple (lo, hi)
fees_of(fr) == fr

\* one run of the script (lines 74-104): the names it binds
EnhancedRun(bs, sp, fp, bh, ts, ch, oh, fy, sr, fr) ==
    Let(calculate_metrics(bs, 0, 0, bh, 0, ch, oh), LAMBDA inhouse :
    Let(calculate_metrics(bs, sp, fp, bh, ts, ch, oh), LAMBDA broker :
    Let(PyRange(1, fy + 1, 1), LAMBDA years :
    Let(x_vals_of(sr), LAMBDA x_vals :
    Let(fees_of(fr), LAMBDA fees :
        [inhouse |-> inhouse,
         broker  |-> broker,
         years   |-> years,
         cumulative_benefits |->
             [i \in 1..Len(years) |-> RMul(broker["Total Benefit ($)"], R(years[i]))],
         x_vals  |-> x_vals,
         lines   |->
             [i \in 1..Len(fees) |->
                 [fee |-> fees[i],
                  roi_vals |->
                     [k \in 1..Len(x_vals) |->
                         calculate_metrics(bs, x_vals[k], fees[i], bh, ts, ch, oh)
                             ["Total ROI (x)"]]]]])))))

\* ---------------------------------------------------------------------------
\* it_broker_roi_calculator_enhanced_style_domains_fixed.py
\* ---------------------------------------------------------------------------

\* Fixed Assumptions (lines 12-18)
YEARS == 3
DISCOUNT_RATE == Rat(10, 100)
PRODUCTIVITY_GAIN_PCT == 15
SALARY_PER_EMPLOYEE == 80000
NUM_EMPLOYEES == 50
BROKER_FEE_PCT == 5
OPP_COST_RATE == Rat(20, 100)

\* In-House Assumptions (lines 21-26)
OPP_MULTIPLIER == 3
BASE_HOURLY_RATE == R(125)
OPP_COST_PER_HOUR == RMul(BASE_HOURLY_RATE, R(OPP_MULTIPLIER))
INHOUSE_HOURS == 200
SUPPLIER_MGMT_PCT == 25
SUPPLIER_HOURLY_RATE == R(135)

\* the working hours of a year, the literal of line 84
HOURS_PER_YEAR == 2080

\* Service Categories & Industry Rates (lines 29-38)
CATEGORY_PARAMS ==
    ("Software Licensing" :> [license_rate |-> Rat(50, 100), implementation_rate |-> Rat(30, 100)])
    @@ ("SaaS Subscriptions" :> [license_rate |-> Rat(45, 100), implementation_rate |-> Rat(25, 100)])
    @@ ("Cloud Services" :> [license_rate |-> Rat(40, 100), implementation_rate |-> Rat(20, 100)])
    @@ ("Telecom Services" :> [license_rate |-> Rat(35, 100), implementation_rate |-> Rat(15, 100)])
    @@ ("Hardware Maintenance" :> [license_rate |-> Rat(30, 100), implementation_rate |-> Rat(10, 100)])
    @@ ("Mobility & IoT" :> [license_rate |-> Rat(40, 100), implementation_rate |-> Rat(20, 100)])
    @@ ("Security" :> [license_rate |-> Rat(55, 100), implementation_rate |-> Rat(35, 100)])
    @@ ("ITAM/ITSM" :> [license_rate |-> Rat(45, 100), implementation_rate |-> Rat(25, 100)])

\* a lookup that falls back to a default pair: CATEGORY_PARAMS.get(key, default)
rates_or_default(key) ==
    Let(CATEGORY_PARAMS, LAMBDA table :
        IF key \in DOMAIN table
        THEN [raised |-> "", rates |-> table[key]]
        ELSE [raised |-> "", rates |-> table["Cloud Services"]])

\* CATEGORY_PARAMS[category] (line 67): a dict subscript raises KeyError(key)
rates_of(key) ==
    Let(CATEGORY_PARAMS, LAMBDA table :
        IF key \in DOMAIN table
        THEN [raised |-> "", rates |-> table[key]]
        ELSE [raised |-> "KeyError", key |-> key])

\* line 72
productivity_savings ==
    RMul(RMul(RDiv(R(PRODUCTIVITY_GAIN_PCT), R(100)), R(SALARY_PER_EMPLOYEE)),
         R(NUM_EMPLOYEES))

\* Retrieve Rates and Compute Savings (lines 67-73); spend is a float
annual_benefit_of(key, spend) ==
    Let(rates_of(key), LAMBDA looked :
        IF looked.raised # "" THEN looked
        ELSE
        Let(looked.rates.license_rate, LAMBDA license_rate :
        Let(looked.rates.implementation_rate, LAMBDA impl_rate :
        Let(RMul(spend, license_rate), LAMBDA license_savings :
        Let(RMul(spend, impl_rate), LAMBDA implementation_savings :
        Let(productivity_savings, LAMBDA productivity :
            [raised |-> "",
             license_rate |-> license_rate,
             impl_rate |-> impl_rate,
             license_savings |-> license_savings,
             implementation_savings |-> implementation_savings,
             productivity_savings |-> productivity,
             annual_benefit |->
                 RAdd(RAdd(license_savings, implementation_savings), productivity)]))))))

\* lines 82-85
inhouse_cost ==
    RAdd(RMul(OPP_COST_PER_HOUR, R(INHOUSE_HOURS)),
         RMul(RMul(RDiv(R(SUPPLIER_MGMT_PCT), R(100)), R(HOURS_PER_YEAR)),
              SUPPLIER_HOURLY_RATE))

\* the outsourced net benefit with only the subscription cost subtracted
net_out_cost_only(annual_benefit, subscription_cost) ==
    RSub(annual_benefit, subscription_cost)

\* Outsourced Scenario Calculations (lines 76-79)
net_out_of(annual_benefit, subscription_cost) ==
    Let(RDiv(RMul(annual_benefit, R(BROKER_FEE_PCT)), R(100)), LAMBDA broker_fee_value :
    Let(RMul(subscription_cost, OPP_COST_RATE), LAMBDA opp_cost_value :
        RSub(RSub(RSub(annual_benefit, subscription_cost), broker_fee_value),
             opp_cost_value)))

\* line 86
net_in_of(annual_benefit, cost) == RSub(annual_benefit, cost)

\* [net] * YEARS (lines 89-90)
cash_flows(net, years) == [i \in 1..years |-> net]

\* the discounted sum with the periods counted from 0: enumerate(cf)
RECURSIVE npv_from_zero(_, _)
npv_from_zero(cf, rate) ==
    IF cf = <<>> THEN R(0)
    ELSE Let(SubSeq(cf, 1, Len(cf) - 1), LAMBDA front :
             RAdd(npv_from_zero(front, rate),
                  RDiv(cf[Len(cf)], RPow(RAdd(R(1), rate), Len(cf) - 1))))

\* sum(cf/((1+DISCOUNT_RATE)**i) for i,cf in enumerate(cf, 1)) (lines 91-92),
\* summed left to right from 0
RECURSIVE npv(_, _)
npv(cf, rate) ==
    IF cf = <<>> THEN R(0)
    ELSE Let(SubSeq(cf, 1, Len(cf) - 1), LAMBDA front :
             RAdd(npv(front, rate),
                  RDiv(cf[Len(cf)], RPow(RAdd(R(1), rate), Len(cf)))))

\* (sum(cf) - cost) / cost * 100 (lines 93-94): the division raises on a zero cost
roi(cf, cost) ==
    Let(RDiv(RSub(RSum(cf), cost), cost), LAMBDA q :
        IF q = ZeroDivisionError THEN q ELSE RMul(q, R(100)))

\* np.cumsum(cf)
cumsum(cf) == [i \in 1..Len(cf) |-> RSum(SubSeq(cf, 1, i))]

\* Python's None, the default of next() in lines 95-96
None == 0

\* the last element of the generator instead of the first
Last(hits, default) ==
    IF hits = {} THEN default ELSE CHOOSE i \in hits : \A j \in hits : j <= i

\* the first element of the generator, or the default
First(hits, default) ==
    IF hits = {} THEN default ELSE CHOOSE i \in hits : \A j \in hits : i <= j

\* the payback test with >= in place of >
payback_at_least(cf, cost) ==
    Let(cumsum(cf), LAMBDA cum :
        First({i \in 1..Len(cf) : RLeq(cost, cum[i])}, None))

\* next((i for i,cum in enumerate(np.cumsum(cf),1) if cum>cost), None) (lines 95-96)
payback(cf, cost) ==
    Let(cumsum(cf), LAMBDA cum :
        First({i \in 1..Len(cf) : RLess(cost, cum[i])}, None))

\* one run of the script (lines 67-96) and of main() (lines 99-111): the names
\* bound when the run ends, the exception that ended it, and the six metrics of
\* the Summary tab, which main() renders only when the script got to line 131
DomainsRun(key, spend) ==
    Let(annual_benefit_of(key, spend), LAMBDA benefit :
        IF benefit.raised # ""
        THEN [raised |-> benefit.raised, line |-> 67, page |-> <<>>]
        ELSE
        Let(benefit.annual_benefit, LAMBDA annual_benefit :
        Let(spend, LAMBDA subscription_cost :
        Let(net_out_of(annual_benefit, subscription_cost), LAMBDA net_out :
        Let(inhouse_cost, LAMBDA inhouse :
        Let(net_in_of(annual_benefit, inhouse), LAMBDA net_in :
        Let(cash_flows(net_out, YEARS), LAMBDA cf_out :
        Let(cash_flows(net_in, YEARS), LAMBDA cf_in :
        Let(npv(cf_out, DISCOUNT_RATE), LAMBDA npv_out :
        Let(npv(cf_in, DISCOUNT_RATE), LAMBDA npv_in :
        Let([annual_benefit |-> annual_benefit,
             subscription_cost |-> subscription_cost,
             inhouse_cost |-> inhouse,
             net_out |-> net_out, net_in |-> net_in,
             cf_out |-> cf_out, cf_in |-> cf_in,
             npv_out |-> npv_out, npv_in |-> npv_in], LAMBDA bound :
        Let(roi(cf_out, subscription_cost), LAMBDA roi_out :
            IF roi_out = ZeroDivisionError
            THEN bound @@ [raised |-> "ZeroDivisionError", line |-> 93, page |-> <<>>]
            ELSE
            Let(roi(cf_in, inhouse), LAMBDA roi_in :
            IF roi_in = ZeroDivisionError
            THEN bound @@ [raised |-> "ZeroDivisionError", line |-> 94,
                           roi_out |-> roi_out, page |-> <<>>]
            ELSE
            Let(payback(cf_out, subscription_cost), LAMBDA payback_out :
            Let(payback(cf_in, inhouse), LAMBDA payback_in :
                bound @@
                [raised |-> "",
                 roi_out |-> roi_out, roi_in |-> roi_in,
                 payback_out |-> payback_out, payback_in |-> payback_in,
                 page |-> <<[npv |-> npv_out, roi |-> roi_out, payback |-> payback_out],
                            [npv |-> npv_in, roi |-> roi_in,
                             payback |-> payback_in]>>])))))))))))))))

\* ---------------------------------------------------------------------------
\* The widgets' values and the arguments of direct calls
\* ---------------------------------------------------------------------------

\* forecast_years is a slider over 1..10 (line 43); the model stops at this year
MaxForecastYears == 3

\* annual_spend is k * 10000 dollars for k in 0..MaxSpendSteps
MaxSpendSteps == 20

\* direct calls of payback and npv: horizons 1..MaxHorizon, yearly cash flows
\* -MaxOutflow..MaxInflow, costs 0..MaxCost
MaxHorizon == 3
MaxOutflow == 1
MaxInflow == 2
MaxCost == 3

\* number_input(min_value=0) (lines 36, 39, 41, 42) and the sliders (lines 37-48)
BaselineSpends == {0, 1000000}
SavingsPcts == {0, 30, 100}
FeePcts == {0, 10}
BaselineHours == {0, 500}
TimeSavedPcts == {0, 50}
CostsPerHour == {0, 150}
OppValuesPerHour == {0, 250}
ForecastYears == 1..MaxForecastYears
SavingsRanges == {<<10, 50>>, <<10, 12>>, <<12, 12>>}
FeeRanges == {<<8, 12>>, <<0, 12>>, <<0, 0>>}

\* selectbox(list(CATEGORY_PARAMS.keys())) (line 46)
Categories == DOMAIN CATEGORY_PARAMS

\* number_input(min_value=0.0) (line 50)
AnnualSpends == {k * 10000 : k \in 0..MaxSpendSteps}

\* what a caller that validates nothing may pass
AnySpends == {-1000, 0, 1000}
AnyPcts == {-10, 0, 40, 150}
AnyHours == {-8, 0, 8}
AnyRates == {0, 150}
AnyKeys == Categories \cup {"Consulting", "cloud services", ""}
AnyAnnualSpends == {-1000, 0, 100000}
CashFlowSeries ==
    UNION {[1..h -> {R(v) : v \in (-MaxOutflow)..MaxInflow}] : h \in 1..MaxHorizon}
Costs == {R(c) : c \in 0..MaxCost}
DiscountRates == {R(0), DISCOUNT_RATE, Rat(1, 2)}

\* ---------------------------------------------------------------------------
\* The state machines
\* ---------------------------------------------------------------------------

\* the script's run on the widgets' new values
RerunEnhanced ==
    enhanced' = EnhancedRun(baseline_spend', savings_pct', fee_pct', baseline_hours',
                            time_saved_pct', cost_per_hour', opp_value_per_hour',
                            forecast_years', savings_range', fee_range')

RerunDomains ==
    domains' = DomainsRun(category', R(annual_spend'))

\* the first run of each script, on the widgets' defaults (value=...)
Init ==
    /\ baseline_spend = 1000000
    /\ savings_pct = 30
    /\ fee_pct = 10
    /\ baseline_hours = 500
    /\ time_saved_pct = 50
    /\ cost_per_hour = 150
    /\ opp_value_per_hour = 250
    /\ forecast_years = 3
    /\ savings_range = <<10, 50>>
    /\ fee_range = <<8, 12>>
    /\ enhanced = EnhancedRun(1000000, 30, 10, 500, 50, 150, 250, 3, <<10, 50>>, <<8, 12>>)
    /\ category = "Software Licensing"
    /\ annual_spend = 100000
    /\ domains = DomainsRun("Software Licensing", R(100000))
    /\ call = [fn |-> "none"]

SetBaselineSpend ==
    /\ \E v \in BaselineSpends \ {baseline_spend} : baseline_spend' = v
    /\ UNCHANGED <<savings_pct, fee_pct, baseline_hours, time_saved_pct, cost_per_hour,
                   opp_value_per_hour, forecast_years, savings_range, fee_range>>
    /\ RerunEnhanced
    /\ UNCHANGED <<domainsVars, call>>

SetSavingsPct ==
    /\ \E v \in SavingsPcts \ {savings_pct} : savings_pct' = v
    /\ UNCHANGED <<baseline_spend, fee_pct, baseline_hours, time_saved_pct, cost_per_hour,
                   opp_value_per_hour, forecast_years, savings_range, fee_range>>
    /\ RerunEnhanced
    /\ UNCHANGED <<domainsVars, call>>

SetFeePct ==
    /\ \E v \in FeePcts \ {fee_pct} : fee_pct' = v
    /\ UNCHANGED <<baseline_spend, savings_pct, baseline_hours, time_saved_pct,
                   cost_per_hour, opp_value_per_hour, forecast_years, savings_range,
                   fee_range>>
    /\ RerunEnhanced
    /\ UNCHANGED <<domainsVars, call>>

SetBaselineHours ==
    /\ \E v \in BaselineHours \ {baseline_hours} : baseline_hours' = v
    /\ UNCHANGED <<baseline_spend, savings_pct, fee_pct, time_saved_pct, cost_per_hour,
                   opp_value_per_hour, forecast_years, savings_range, fee_range>>
    /\ RerunEnhanced
    /\ UNCHANGED <<domainsVars, call>>

SetTimeSavedPct ==
    /\ \E v \in TimeSavedPcts \ {time_saved_pct} : time_saved_pct' = v
    /\ UNCHANGED <<baseline_spend, savings_pct, fee_pct, baseline_hours, cost_per_hour,
                   opp_value_per_hour, forecast_years, savings_range, fee_range>>
    /\ RerunEnhanced
    /\ UNCHANGED <<domainsVars, call>>

SetCostPerHour ==
    /\ \E v \in CostsPerHour \ {cost_per_hour} : cost_per_hour' = v
    /\ UNCHANGED <<baseline_spend, savings_pct, fee_pct, baseline_hours, time_saved_pct,
                   opp_value_per_hour, forecast_years, savings_range, fee_range>>
    /\ RerunEnhanced
    /\ UNCHANGED <<domainsVars, call>>

SetOppValuePerHour ==
    /\ \E v \in OppValuesPerHour \ {opp_value_per_hour} : opp_value_per_hour' = v
    /\ UNCHANGED <<baseline_spend, savings_pct, fee_pct, baseline_hours, time_saved_pct,
                   cost_per_hour, forecast_years, savings_range, fee_range>>
    /\ RerunEnhanced
    /\ UNCHANGED <<domainsVars, call>>

SetForecastYears ==
    /\ \E v \in ForecastYears \ {forecast_years} : forecast_years' = v
    /\ UNCHANGED <<baseline_spend, savings_pct, fee_pct, baseline_hours, time_saved_pct,
                   cost_per_hour, opp_value_per_hour, savings_range, fee_range>>
    /\ RerunEnhanced
    /\ UNCHANGED <<domainsVars, call>>

SetSavingsRange ==
    /\ \E v \in SavingsRanges \ {savings_range} : savings_range' = v
    /\ UNCHANGED <<baseline_spend, savings_pct, fee_pct, baseline_hours, time_saved_pct,
                   cost_per_hour, opp_value_per_hour, forecast_years, fee_range>>
    /\ RerunEnhanced
    /\ UNCHANGED <<domainsVars, call>>

SetFeeRange ==
    /\ \E v \in FeeRanges \ {fee_range} : fee_range' = v
    /\ UNCHANGED <<baseline_spend, savings_pct, fee_pct, baseline_hours, time_saved_pct,
                   cost_per_hour, opp_value_per_hour, forecast_years, savings_range>>
    /\ RerunEnhanced
    /\ UNCHANGED <<domainsVars, call>>

Next ==
    \/ SetBaselineSpend
    \/ SetSavingsPct
    \/ SetFeePct
    \/ SetBaselineHours
    \/ SetTimeSavedPct
    \/ SetCostPerHour
    \/ SetOppValuePerHour
    \/ SetForecastYears
    \/ SetSavingsRange
    \/ SetFeeRange

\* the percentage dashboard (it_broker_roi_calculator_enhanced.py)
Spec == Init /\ [][Next]_vars

SelectCategory ==
    /\ \E c \in Categories \ {category} : category' = c
    /\ UNCHANGED annual_spend
    /\ RerunDomains
    /\ UNCHANGED <<enhancedVars, call>>

SetAnnualSpend ==
    /\ \E v \in AnnualSpends \ {annual_spend} : annual_spend' = v
    /\ UNCHANGED category
    /\ RerunDomains
    /\ UNCHANGED <<enhancedVars, call>>

NextDomains ==
    \/ SelectCategory
    \/ SetAnnualSpend

\* the category dashboard (it_broker_roi_calculator_enhanced_style_domains_fixed.py)
SpecDomains == Init /\ [][NextDomains]_vars

CallCalculateMetrics ==
    /\ call.fn = "none"
    /\ \E spend \in AnySpends, savings \in AnyPcts, fee \in AnyPcts, hours \in AnyHours,
          time_saved \in AnyPcts, cost_hr \in AnyRates, opp_hr \in AnyRates :
          call' = [fn |-> "calculate_metrics",
                   spend |-> spend, savings_pct |-> savings, fee_pct |-> fee,
                   hours |-> hours, time_saved_pct |-> time_saved,
                   cost_hr |-> cost_hr, opp_hr |-> opp_hr,
                   result |-> calculate_metrics(spend, savings, fee, hours,
                                                time_saved, cost_hr, opp_hr)]
    /\ UNCHANGED <<enhancedVars, domainsVars>>

CallAnnualBenefit ==
    /\ call.fn = "none"
    /\ \E key \in AnyKeys, spend \in AnyAnnualSpends :
          call' = [fn |-> "annual_benefit", key |-> key, spend |-> spend,
                   result |-> annual_benefit_of(key, R(spend))]
    /\ UNCHANGED <<enhancedVars, domainsVars>>

CallPayback ==
    /\ call.fn = "none"
    /\ \E cf \in CashFlowSeries, c1 \in Costs, c2 \in Costs :
          /\ RLeq(c1, c2)
          /\ call' = [fn |-> "payback", cf |-> cf, c1 |-> c1, c2 |-> c2,
                      p1 |-> payback(cf, c1), p2 |-> payback(cf, c2)]
    /\ UNCHANGED <<enhancedVars, domainsVars>>

CallNpv ==
    /\ call.fn = "none"
    /\ \E cf \in CashFlowSeries, rate \in DiscountRates :
          call' = [fn |-> "npv", cf |-> cf, rate |-> rate, result |-> npv(cf, rate)]
    /\ UNCHANGED <<enhancedVars, domainsVars>>

NextEngine ==
    \/ CallCalculateMetrics
    \/ CallAnnualBenefit
    \/ CallPayback
    \/ CallNpv

\* the calculations called directly, on arguments no widget has validated
SpecEngine == Init /\ [][NextEngine]_vars

\* ---------------------------------------------------------------------------
\* Properties
\* ---------------------------------------------------------------------------

\* the two calls of calculate_metrics of one run and the arguments they got
MetricsCalls ==
    {[m |-> enhanced.inhouse, savings |-> 0, fee |-> 0, time_saved |-> 0],
     [m |-> enhanced.broker, savings |-> savings_pct, fee |-> fee_pct,
      time_saved |-> time_saved_pct]}

\* C1: with an annual spend of 0 (cost of the outsourced scenario = 0) the run
\* does not raise: the page shows the outsourced ROI% as not-a-number, with an
\* NPV and a payback for both scenarios.
C1_ZeroCostReportsNaN ==
    annual_spend = 0 =>
        /\ domains.raised = ""
        /\ Len(domains.page) = 2
        /\ domains.page[1].roi = NaN
        /\ IsNumber(domains.page[1].npv)
        /\ domains.page[1].payback \in {None} \cup (1..YEARS)

\* C2: calculate_metrics never raises; both ROI multiples are not-a-number
\* exactly when the fee cost is 0 (fee% = 0, as in the in-house call, or spend =
\* 0), and otherwise financial ROI * fee cost = net savings and total ROI * fee
\* cost = total benefit.
C2_ZeroFeeGivesNaN ==
    /\ enhanced.inhouse["Financial ROI (x)"] = NaN
    /\ enhanced.inhouse["Total ROI (x)"] = NaN
    /\ \A c \in MetricsCalls :
        /\ ~Raised(c.m)
        /\ c.m["Broker Fee Cost ($)"] = R(0) <=> (c.fee = 0 \/ baseline_spend = 0)
        /\ IF c.fee = 0 \/ baseline_spend = 0
           THEN /\ c.m["Financial ROI (x)"] = NaN
                /\ c.m["Total ROI (x)"] = NaN
           ELSE /\ IsNumber(c.m["Financial ROI (x)"])
                /\ IsNumber(c.m["Total ROI (x)"])
                /\ RMul(c.m["Financial ROI (x)"], c.m["Broker Fee Cost ($)"])
                       = c.m["Net Savings ($)"]
                /\ RMul(c.m["Total ROI (x)"], c.m["Broker Fee Cost ($)"])
                       = c.m["Total Benefit ($)"]

\* C2's case: a broker call with a zero fee% on a positive spend
C2_Witness ==
    /\ fee_pct = 0
    /\ baseline_spend > 0
    /\ savings_pct > 0
    /\ enhanced.broker["Net Savings ($)"] # R(0)
    /\ enhanced.broker["Financial ROI (x)"] = NaN

\* C3: a calculation called with a negative spend or negative hours, or with a
\* percentage outside [0,100], ends in a validation error and returns no metrics.
C3_ContractViolationsRejected ==
    /\ (/\ call.fn = "calculate_metrics"
        /\ \/ call.spend < 0
           \/ call.hours < 0
           \/ \E pct \in {call.savings_pct, call.fee_pct, call.time_saved_pct} :
                 pct < 0 \/ pct > 100)
       => /\ "raised" \in DOMAIN call.result
          /\ "Net Savings ($)" \notin DOMAIN call.result
    /\ (call.fn = "annual_benefit" /\ call.spend < 0)
       => /\ call.result.raised # ""
          /\ "annual_benefit" \notin DOMAIN call.result

\* C4: a category key outside the fixed table ends in KeyError naming the key,
\* with no rate pair and no annual benefit; a key of the table gets exactly its
\* own (license_rate, implementation_rate) pair.
C4_UnknownCategoryRaises ==
    call.fn = "annual_benefit" =>
        IF call.key \in DOMAIN CATEGORY_PARAMS
        THEN /\ call.result.raised = ""
             /\ call.result.license_rate = CATEGORY_PARAMS[call.key].license_rate
             /\ call.result.impl_rate = CATEGORY_PARAMS[call.key].implementation_rate
             /\ call.result.license_savings
                    = RMul(R(call.spend), CATEGORY_PARAMS[call.key].license_rate)
             /\ call.result.implementation_savings
                    = RMul(R(call.spend), CATEGORY_PARAMS[call.key].implementation_rate)
        ELSE /\ call.result.raised = "KeyError"
             /\ call.result.key = call.key
             /\ DOMAIN call.result = {"raised", "key"}

\* C4's case: a lookup of a key that is not in the table
C4_Witness ==
    /\ call.fn = "annual_benefit"
    /\ call.key = "Consulting"
    /\ call.result.raised = "KeyError"

\* the cumulative cash flow after year t, over whole-dollar cash flows
RECURSIVE CumulativeAt(_, _)
CumulativeAt(cf, t) == IF t = 0 THEN 0 ELSE CumulativeAt(cf, t - 1) + cf[t][1]

\* p is the payback year of cf for the cost: the first year whose cumulative
\* cash flow is strictly above the cost, None when the horizon has no such year
IsPaybackOf(p, cf, cost) ==
    IF \E t \in 1..Len(cf) : CumulativeAt(cf, t) > cost[1]
    THEN /\ p \in 1..Len(cf)
         /\ CumulativeAt(cf, p) > cost[1]
         /\ \A t \in 1..(p - 1) : CumulativeAt(cf, t) <= cost[1]
    ELSE p = None

\* C5: the payback year is the smallest 1-indexed year whose cumulative cash
\* flow is strictly greater than the cost (equal does not count); with no such
\* year, as for every non-positive flat series, it is None; a payback that is
\* not None lies in 1..horizon.
C5_PaybackIsFirstYearAboveCost ==
    call.fn = "payback" =>
        /\ IsPaybackOf(call.p1, call.cf, call.c1)
        /\ IsPaybackOf(call.p2, call.cf, call.c2)
        /\ call.p1 # None => call.p1 \in 1..Len(call.cf)
        /\ (\A t \in 1..Len(call.cf) : call.cf[t] = call.cf[1] /\ call.cf[t][1] <= 0)
               => call.p1 = None /\ call.p2 = None

\* C5's case: the cumulative cash flow equals the cost in one year and the
\* payback is a later year
C5_Witness ==
    /\ call.fn = "payback"
    /\ call.p1 # None
    /\ \E t \in 1..(call.p1 - 1) : CumulativeAt(call.cf, t) = call.c1[1]

\* a payback year as a rank: None is later than every year of the horizon
Rank(p, cf) == IF p = None THEN Len(cf) + 1 ELSE p

\* C6: for one series and costs c1 <= c2 the payback of c2 is not earlier than
\* the payback of c1, None being later than every year.
C6_PaybackMonotoneInCost ==
    call.fn = "payback" =>
        /\ call.c1[1] <= call.c2[1]
        /\ Rank(call.p1, call.cf) <= Rank(call.p2, call.cf)
        /\ call.p1 = None => call.p2 = None

\* C6's case: a higher cost moves the payback to a later year
C6_Witness ==
    /\ call.fn = "payback"
    /\ call.c1[1] < call.c2[1]
    /\ call.p1 # None
    /\ call.p2 # None
    /\ call.p1 < call.p2

\* C7 as stated: both series are flat, YEARS long, and every entry is the annual
\* benefit minus the scenario's own cost (subscription cost, in-house cost).
C7_CashFlowIsBenefitMinusCost ==
    "cf_out" \in DOMAIN domains =>
        /\ Len(domains.cf_out) = YEARS
        /\ Len(domains.cf_in) = YEARS
        /\ \A i \in 1..YEARS :
            /\ domains.cf_out[i] = RSub(domains.annual_benefit, domains.subscription_cost)
            /\ domains.cf_in[i] = RSub(domains.annual_benefit, domains.inhouse_cost)

\* year p is the payback year of the flat series of net for the cost
FlatPayback(p, net, cost) ==
    IF p = None
    THEN ~RLess(cost, RMul(net, R(YEARS)))
    ELSE /\ p \in 1..YEARS
         /\ RLess(cost, RMul(net, R(p)))
         /\ p > 1 => ~RLess(cost, RMul(net, R(p - 1)))

\* C7 (amended): both series are flat and YEARS long; every in-house entry is
\* the annual benefit minus the in-house cost; every outsourced entry is the
\* annual benefit minus the subscription cost, minus the broker fee
\* (BROKER_FEE_PCT % of the annual benefit), minus the opportunity cost
\* (OPP_COST_RATE of the subscription cost); ROI% and payback of a scenario use
\* its own cost (subscription cost, in-house cost).
C7_CashFlowIsNetBenefit ==
    "cf_out" \in DOMAIN domains =>
        /\ domains.subscription_cost = R(annual_spend)
        /\ Len(domains.cf_out) = YEARS
        /\ Len(domains.cf_in) = YEARS
        /\ \A i \in 1..YEARS :
            /\ domains.cf_out[i]
                 = RSub(RSub(RSub(domains.annual_benefit, domains.subscription_cost),
                             RDiv(RMul(domains.annual_benefit, R(BROKER_FEE_PCT)), R(100))),
                        RMul(domains.subscription_cost, OPP_COST_RATE))
            /\ domains.cf_in[i] = RSub(domains.annual_benefit, domains.inhouse_cost)
        /\ domains.raised = "" =>
            /\ domains.roi_out
                 = RMul(RDiv(RSub(RMul(domains.cf_out[1], R(YEARS)),
                                  domains.subscription_cost),
                             domains.subscription_cost), R(100))
            /\ domains.roi_in
                 = RMul(RDiv(RSub(RMul(domains.cf_in[1], R(YEARS)), domains.inhouse_cost),
                             domains.inhouse_cost), R(100))
            /\ FlatPayback(domains.payback_out, domains.cf_out[1],
                           domains.subscription_cost)
            /\ FlatPayback(domains.payback_in, domains.cf_in[1], domains.inhouse_cost)

\* C7's case: a run that got to the metrics, whose outsourced entry is not the
\* annual benefit minus the subscription cost
C7_Witness ==
    /\ domains.raised = ""
    /\ annual_spend > 0
    /\ domains.payback_out # None
    /\ domains.cf_out[1] # RSub(domains.annual_benefit, domains.subscription_cost)

\* the values lo, lo + step, ... up to hi, and hi itself
SteppedInclusive(range) ==
    {v \in range[1]..range[2] : (v - range[1]) % SWEEP_STEP = 0} \cup {range[2]}

\* the (savings%, fee%) points the chart evaluates
PointsPlotted ==
    {<<enhanced.x_vals[k], enhanced.lines[i].fee>> :
        k \in 1..Len(enhanced.x_vals), i \in 1..Len(enhanced.lines)}

\* every plotted value is the Total ROI of calculate_metrics at its point
PlottedValuesAreTotalRoi ==
    \A i \in 1..Len(enhanced.lines) :
        /\ Len(enhanced.lines[i].roi_vals) = Len(enhanced.x_vals)
        /\ \A k \in 1..Len(enhanced.x_vals) :
            enhanced.lines[i].roi_vals[k]
                = calculate_metrics(baseline_spend, enhanced.x_vals[k],
                                    enhanced.lines[i].fee, baseline_hours,
                                    time_saved_pct, cost_per_hour,
                                    opp_value_per_hour)["Total ROI (x)"]

\* C8 as stated: the sweep evaluates every stepped savings% from the low end up
\* to and including the high end, with every stepped fee% from the low end up
\* to and including the high end, and no other point.
C8_SweepCoversGrid ==
    /\ PointsPlotted = SteppedInclusive(savings_range) \X SteppedInclusive(fee_range)
    /\ PlottedValuesAreTotalRoi

\* C8 (amended): the sweep evaluates the savings% values lo, lo+5, lo+10, ...
\* that do not exceed the high end (the high end itself only when it is a
\* multiple of 5 above the low end), each with the two ends of the fee% range
\* and no fee in between, and plots the Total ROI of calculate_metrics there.
C8_SweepCoversSteppedSavingsAtFeeEnds ==
    /\ {enhanced.x_vals[k] : k \in 1..Len(enhanced.x_vals)}
           = {v \in savings_range[1]..savings_range[2] :
                 (v - savings_range[1]) % SWEEP_STEP = 0}
    /\ \A k \in 1..(Len(enhanced.x_vals) - 1) : enhanced.x_vals[k] < enhanced.x_vals[k + 1]
    /\ Len(enhanced.lines) = 2
    /\ enhanced.lines[1].fee = fee_range[1]
    /\ enhanced.lines[2].fee = fee_range[2]
    /\ PointsPlotted
           = {v \in savings_range[1]..savings_range[2] :
                 (v - savings_range[1]) % SWEEP_STEP = 0} \X {fee_range[1], fee_range[2]}
    /\ PlottedValuesAreTotalRoi

\* C8's case: ranges whose high savings end is off the 5-step grid and whose
\* fee ends are more than one step apart
C8_Witness ==
    /\ savings_range = <<10, 12>>
    /\ fee_range = <<0, 12>>
    /\ baseline_spend > 0
    /\ PointsPlotted = {<<10, 0>>, <<10, 12>>}
    /\ enhanced.lines[2].roi_vals[1] # NaN

\* C9: net savings is exactly gross savings minus fee cost (spend * savings% /
\* 100 - spend * fee% / 100), total benefit is net savings plus time value plus
\* opportunity value and is not below net savings when those two are >= 0.
C9_NetSavingsAndTotalBenefit ==
    \A c \in MetricsCalls :
        /\ RMul(c.m["Gross Savings ($)"], R(100)) = R(baseline_spend * c.savings)
        /\ RMul(c.m["Broker Fee Cost ($)"], R(100)) = R(baseline_spend * c.fee)
        /\ RMul(c.m["Net Savings ($)"], R(100))
               = R(baseline_spend * c.savings - baseline_spend * c.fee)
        /\ RAdd(c.m["Net Savings ($)"], c.m["Broker Fee Cost ($)"])
               = c.m["Gross Savings ($)"]
        /\ c.m["Total Benefit ($)"]
               = RAdd(c.m["Net Savings ($)"],
                      RAdd(c.m["Time Savings Value ($)"], c.m["Opportunity Value ($)"]))
        /\ (RLeq(R(0), c.m["Time Savings Value ($)"])
            /\ RLeq(R(0), c.m["Opportunity Value ($)"]))
               => RLeq(c.m["Net Savings ($)"], c.m["Total Benefit ($)"])

\* C9's case: a broker call with a fee above the savings and hours saved
C9_Witness ==
    /\ baseline_spend > 0
    /\ fee_pct > savings_pct
    /\ RLess(enhanced.broker["Net Savings ($)"], R(0))
    /\ RLess(R(0), enhanced.broker["Time Savings Value ($)"])
    /\ RLess(enhanced.broker["Net Savings ($)"], enhanced.broker["Total Benefit ($)"])

\* the value of the series at the end of its last year: every cash flow
\* compounded from the end of its own year on
RECURSIVE FutureValue(_, _)
FutureValue(cf, rate) ==
    IF cf = <<>> THEN R(0)
    ELSE Let(SubSeq(cf, 1, Len(cf) - 1), LAMBDA front :
             RAdd(RMul(FutureValue(front, rate), RAdd(R(1), rate)), cf[Len(cf)]))

\* C10: NPV discounts year t by (1 + rate)^t with t counted from 1, so NPV
\* compounded over the whole horizon is the future value of the series and a
\* one-year series has NPV * (1 + rate) = its cash flow; with a rate of 0 the
\* NPV is the plain sum of the series.
C10_NpvDiscountsFromYearOne ==
    call.fn = "npv" =>
        /\ RMul(call.result, RPow(RAdd(R(1), call.rate), Len(call.cf)))
               = FutureValue(call.cf, call.rate)
        /\ Len(call.cf) = 1 => RMul(call.result, RAdd(R(1), call.rate)) = call.cf[1]
        /\ call.rate = R(0) => call.result = R(CumulativeAt(call.cf, Len(call.cf)))

\* C10's case: a rate of 0 on a series of several non-zero years
C10_Witness ==
    /\ call.fn = "npv"
    /\ call.rate = R(0)
    /\ Len(call.cf) > 1
    /\ \A t \in 1..Len(call.cf) : call.cf[t] # R(0)
    /\ call.result # R(0)

====
